---------------------------- MODULE Spec2Model ----------------------------
(***************************************************************************)
(* Project / visit record lifecycle of ControlDeProyectos.                 *)
(*                                                                         *)
(* The repository holds six revisions of the Express server.  A            *)
(* deployment runs exactly one of them; the variable `server` names it:    *)
(*   "main"    src/server.mjs                                              *)
(*   "norm"    src/unnamed/part_000, lines 1-322                           *)
(*   "zodflat" src/unnamed/part_000, lines 324-836                         *)
(*   "zodenv"  src/unnamed/part_001, lines 1-566                           *)
(*   "raw"     src/unnamed/part_001, lines 568-899                         *)
(*   "zodhttp" src/src/lib/http.ts,  lines 24-460                          *)
(*                                                                         *)
(* Columns modelled: nombre and pais (required text; consultor is handled  *)
(* by the same code as pais in every handler and is left out), pm          *)
(* (optional text, as numero_oportunidad and client_name), the numeric     *)
(* monto_oportunidad, planned_hours and hourly_rate (as executed_hours),   *)
(* start_date and end_date, terminado, observaciones, activo and the two   *)
(* timestamps.                                                             *)
(*                                                                         *)
(* The table is taken to hold every column the handlers name.  NOT NULL    *)
(* constraints are those of the server's own ensureTables; a column that   *)
(* an INSERT does not name takes the default the primary server's          *)
(* migration declares (src/server.mjs, lines 141-171).                     *)
(***************************************************************************)
EXTENDS Integers, Sequences, FiniteSets, TLC

(***************************************************************************)
(* JavaScript / SQL values.  Every value is a record of the same shape so  *)
(* that any two values can be compared.                                    *)
(***************************************************************************)
Undef   == [t |-> "undefined", n |-> 0, s |-> ""]
Null    == [t |-> "null",      n |-> 0, s |-> ""]
Str(x)  == [t |-> "string",    n |-> 0, s |-> x]
Num(k)  == [t |-> "number",    n |-> k, s |-> ""]
NaN     == [t |-> "number",    n |-> 0, s |-> "NaN"]
Bool(b) == [t |-> "boolean",   n |-> IF b THEN 1 ELSE 0, s |-> ""]
EmptyJsonArray == [t |-> "json", n |-> 0, s |-> "[]"]

IsNullish(v) == v.t \in {"undefined", "null"}
IsString(v)  == v.t = "string"
IsBoolean(v) == v.t = "boolean"
IsNumber(v)  == v.t = "number"
IsFinite(v)  == v.t = "number" /\ v.s # "NaN"

\* a number with a fractional part: k + 0.<frac>
Dec(k, frac) == [t |-> "number", n |-> k, s |-> frac]

\* a ?? b
Nz(a, b) == IF IsNullish(a) THEN b ELSE a

\* a || b  (JavaScript truthiness)
Falsy(v) ==
  \/ IsNullish(v)
  \/ v = Str("")
  \/ v = Bool(FALSE)
  \/ v = Num(0)
  \/ v = NaN
OrElse(a, b) == IF Falsy(a) THEN b ELSE a

\* raw.key : undefined when the body does not carry the key
Get(raw, k) == IF k \in DOMAIN raw THEN raw[k] ELSE Undef

\* String.prototype.trim on the string literals the requests carry
Trim(x) ==
  CASE x = " "   -> ""
    [] x = " p " -> "p"
    [] OTHER     -> x

\* Number(v) on the values the requests carry
DecimalLiteral(x) ==
  CASE x = ""   -> Num(0)
    [] x = " "  -> Num(0)
    [] x = "0"  -> Num(0)
    [] x = "2"  -> Num(2)
    [] x = "5"  -> Num(5)
    [] x = "40" -> Num(40)
    [] x = "-1" -> Num(0 - 1)
    [] x = "50.5" -> Dec(50, ".5")
    [] x = "50,5" -> NaN
    [] OTHER    -> NaN
JsNumber(v) ==
  CASE v.t = "number"    -> v
    [] v.t = "boolean"   -> Num(v.n)
    [] v.t = "null"      -> Num(0)
    [] v.t = "string"    -> DecimalLiteral(v.s)
    [] OTHER             -> NaN

(***************************************************************************)
(* Dates: the date strings the requests carry.                             *)
(***************************************************************************)
\* the date texts of the requests and of the answers, and the characters
\* of each; any other text counts as one character that is no digit
DateTexts ==
  { "2024-01-05", "2024-01-10", "2024-03-05", "2024-05-03",
    "2024-10-01", "10/01/2024", "05/03/2024", "5/3/2024",
    "5/2024", "20240105", "undefined", "undefined-2024-05" }

Chars(x) ==
  CASE x = "2024-01-05"        -> << "2", "0", "2", "4", "-", "0", "1", "-", "0", "5" >>
    [] x = "2024-01-10"        -> << "2", "0", "2", "4", "-", "0", "1", "-", "1", "0" >>
    [] x = "2024-03-05"        -> << "2", "0", "2", "4", "-", "0", "3", "-", "0", "5" >>
    [] x = "2024-05-03"        -> << "2", "0", "2", "4", "-", "0", "5", "-", "0", "3" >>
    [] x = "2024-10-01"        -> << "2", "0", "2", "4", "-", "1", "0", "-", "0", "1" >>
    [] x = "10/01/2024"        -> << "1", "0", "/", "0", "1", "/", "2", "0", "2", "4" >>
    [] x = "05/03/2024"        -> << "0", "5", "/", "0", "3", "/", "2", "0", "2", "4" >>
    [] x = "5/3/2024"          -> << "5", "/", "3", "/", "2", "0", "2", "4" >>
    [] x = "5/2024"            -> << "5", "/", "2", "0", "2", "4" >>
    [] x = "20240105"          -> << "2", "0", "2", "4", "0", "1", "0", "5" >>
    [] x = "undefined"         -> << "u", "n", "d", "e", "f", "i", "n", "e", "d" >>
    [] x = "undefined-2024-05" -> << "u", "n", "d", "e", "f", "i", "n", "e", "d", "-", "2", "0", "2", "4", "-", "0", "5" >>
    [] x = ""                 -> << >>
    [] OTHER                  -> << x >>

\* the text that has the characters cs ("?" when it is none of DateTexts)
Text(cs) ==
  IF \E x \in DateTexts : Chars(x) = cs
    THEN CHOOSE x \in DateTexts : Chars(x) = cs
    ELSE "?"

Digits == {"0", "1", "2", "3", "4", "5", "6", "7", "8", "9"}

\* /^\d{4}-\d{2}-\d{2}$/
IsIsoDate(x) ==
  LET cs == Chars(x)
  IN  /\ Len(cs) = 10
      /\ \A i \in 1..10 : IF i \in {5, 8} THEN cs[i] = "-" ELSE cs[i] \in Digits

\* v.includes("/")
HasSlash(x) == \E i \in DOMAIN Chars(x) : Chars(x)[i] = "/"

\* String.prototype.split with a separator of one character
RECURSIVE split(_, _)
split(cs, sep) ==
  IF \A i \in DOMAIN cs : cs[i] # sep THEN << cs >>
  ELSE LET at == CHOOSE i \in DOMAIN cs :
                   cs[i] = sep /\ \A j \in 1..(i - 1) : cs[j] # sep
       IN  << SubSeq(cs, 1, at - 1) >> \o split(SubSeq(cs, at + 1, Len(cs)), sep)

\* a text left at its length
unpadded(cs, n, c) == cs

\* String.prototype.padStart with a filler of one character
RECURSIVE padStart(_, _, _)
padStart(cs, n, c) == IF Len(cs) >= n THEN cs ELSE padStart(<< c >> \o cs, n, c)

\* const [d, m, y] = v.split("/"); `${y}-${m.padStart(2,"0")}-${d.padStart(2,"0")}`
SlashToIso(x) ==
  LET parts == split(Chars(x), "/")
      d == parts[1]
      m == parts[2]
      y == IF Len(parts) >= 3 THEN parts[3] ELSE Chars("undefined")
  IN  Text(y \o << "-" >> \o padStart(m, 2, "0") \o << "-" >> \o padStart(d, 2, "0"))

\* the DATE a column takes from a string parameter (DateStyle ISO, MDY);
\* "" when the text is no date
PgDate(x) ==
  CASE IsIsoDate(x)     -> x
    [] x = "10/01/2024" -> "2024-10-01"
    [] x = "05/03/2024" -> "2024-05-03"
    [] x = "5/3/2024"   -> "2024-05-03"
    [] x = "20240105"   -> "2024-01-05"
    [] OTHER            -> ""

\* the day of the year 2024 of a stored date
DayOf(x) ==
  CASE x = "2024-01-05" -> 5
    [] x = "2024-01-10" -> 10
    [] x = "2024-03-05" -> 65
    [] x = "2024-05-03" -> 124
    [] OTHER            -> 275

(***************************************************************************)
(* The deployments.                                                        *)
(***************************************************************************)
Servers == {"main", "norm", "zodflat", "zodenv", "raw", "zodhttp"}

\* the revisions that parse the body with a zod schema
ZodServers == {"zodflat", "zodenv", "zodhttp"}

(***************************************************************************)
(* normalizeProjectPayload (servers "main" and "norm").                    *)
(***************************************************************************)
toNumOrNull(v) ==
  IF IsNullish(v) \/ v = Str("")
    THEN Null
    ELSE IF IsFinite(JsNumber(v)) THEN JsNumber(v) ELSE Null

toIsoDateOrNull(v) ==
  IF Falsy(v) THEN Null
  ELSE IF IsString(v) /\ HasSlash(v.s) THEN Str(SlashToIso(v.s))
  ELSE v

normalizeActivo(srv, raw) ==
  IF srv = "main"
    THEN (IF IsBoolean(Get(raw, "activo")) THEN Get(raw, "activo") ELSE Null)
    ELSE Undef

normalizeProjectPayload(srv, raw) ==
  [ nombre            |-> Nz(Get(raw, "nombre"), Nz(Get(raw, "project_name"), Null)),
    pais              |-> Nz(Get(raw, "pais"), Nz(Get(raw, "country"), Null)),
    pm                |-> Nz(Get(raw, "pm"),
                             Nz(Get(raw, "pm_asignado"), Nz(Get(raw, "pmAsignado"), Null))),
    monto_oportunidad |-> toNumOrNull(Nz(Get(raw, "monto_oportunidad"),
                             Nz(Get(raw, "montoOportunidad"), Get(raw, "monto")))),
    planned_hours     |-> toNumOrNull(Nz(Get(raw, "planned_hours"),
                             Nz(Get(raw, "horas_planificadas"), Get(raw, "horasPlanificadas")))),
    hourly_rate       |-> toNumOrNull(Nz(Get(raw, "hourly_rate"),
                             Nz(Get(raw, "valor_hora"), Get(raw, "valorHora")))),
    start_date        |-> toIsoDateOrNull(Nz(Get(raw, "start_date"),
                             Nz(Get(raw, "fecha_inicio"), Get(raw, "fechaInicio")))),
    end_date          |-> toIsoDateOrNull(Nz(Get(raw, "end_date"),
                             Nz(Get(raw, "fecha_fin"), Get(raw, "fechaFin")))),
    terminado         |-> Nz(Get(raw, "terminado"), Nz(Get(raw, "finalizado"), Bool(FALSE))),
    observaciones     |-> Nz(Get(raw, "observaciones"),
                             IF srv = "main" THEN Str("") ELSE Null),
    activo            |-> normalizeActivo(srv, raw) ]


(***************************************************************************)
(* toNumber / toJsonb (server "raw").                                      *)
(***************************************************************************)
toNumber(v, def) ==
  IF IsNullish(v) \/ v = Str("") \/ JsNumber(v) = NaN THEN def ELSE JsNumber(v)

\* JSON.parse of a request string: the free-text notes the requests carry
\* are not JSON documents, so the parse throws and the default is returned
toDateOrNull(s) == IF Falsy(s) THEN Null ELSE s

toJsonb(v, def) ==
  IF IsNullish(v) \/ v = Str("") THEN def
  ELSE IF IsString(v) THEN def
  ELSE v

(***************************************************************************)
(* zod field schemas.  A schema applied to the value under a key returns   *)
(* whether it accepts it, whether the parsed object carries the key, and   *)
(* the parsed value.  z.object keeps a key whose parsed value is not       *)
(* undefined, and drops keys that are not in its shape.                    *)
(***************************************************************************)
ZOk(v)  == [ok |-> TRUE,  has |-> TRUE,  v |-> v]
ZAbsent == [ok |-> TRUE,  has |-> FALSE, v |-> Undef]
ZIssue  == [ok |-> FALSE, has |-> FALSE, v |-> Undef]

IsBlankString(v) == IsString(v) /\ Trim(v.s) = ""
TrimmedNumber(v) == JsNumber(IF IsString(v) THEN Str(Trim(v.s)) ELSE v)

\* z.string().min(1, ...)
zStringMin1(v) == IF IsString(v) /\ v.s # "" THEN ZOk(v) ELSE ZIssue

\* z.string().optional()
zStringOptional(v) ==
  IF v = Undef THEN ZAbsent ELSE IF IsString(v) THEN ZOk(v) ELSE ZIssue

\* z.string().nullable().optional()
zStringNullableOptional(v) ==
  IF v = Undef THEN ZAbsent
  ELSE IF IsString(v) \/ v = Null THEN ZOk(v) ELSE ZIssue

\* z.boolean().optional()
zBooleanOptional(v) ==
  IF v = Undef THEN ZAbsent ELSE IF IsBoolean(v) THEN ZOk(v) ELSE ZIssue

\* z.preprocess("" -> null, z.string().nullable()).optional()
zStrOpt(v) ==
  IF v = Undef THEN ZAbsent
  ELSE LET p == IF IsBlankString(v) THEN Null ELSE v
       IN  IF IsString(p) \/ p = Null THEN ZOk(p) ELSE ZIssue

\* zDateOpt: z.preprocess("" -> null, z.string().regex(ISO).nullable()).optional()
zDateOpt(v) ==
  IF v = Undef THEN ZAbsent
  ELSE LET p == IF IsBlankString(v) THEN Null ELSE v
       IN  IF p = Null \/ (IsString(p) /\ IsIsoDate(p.s)) THEN ZOk(p) ELSE ZIssue

\* z.string().regex(ISO).nullable().optional()
zDateNullableOptional(v) ==
  IF v = Undef THEN ZAbsent
  ELSE IF v = Null \/ (IsString(v) /\ IsIsoDate(v.s)) THEN ZOk(v) ELSE ZIssue

\* z.preprocess(..., z.number().nullable()) : not optional, so the
\* preprocess also runs on a key the body does not carry
zNumNullable(v) ==
  LET p == IF IsNullish(v) THEN Null
           ELSE IF IsBlankString(v) THEN Null
           ELSE IF IsFinite(TrimmedNumber(v)) THEN TrimmedNumber(v) ELSE NaN
  IN  IF p = Null \/ IsFinite(p) THEN ZOk(p) ELSE ZIssue

\* zNumberOrDefault(def)
zNumberOrDefault(def, v) ==
  LET p == IF IsNullish(v) THEN def
           ELSE IF IsString(v)
                  THEN (IF Trim(v.s) = "" \/ Trim(v.s) = "nan" THEN def
                        ELSE IF IsFinite(JsNumber(Str(Trim(v.s))))
                               THEN JsNumber(Str(Trim(v.s))) ELSE def)
           ELSE IF IsNumber(v) THEN (IF IsFinite(v) THEN v ELSE def)
           ELSE def
  IN  IF IsFinite(p) THEN ZOk(p) ELSE ZIssue

\* .refine((n) => n >= 0)
refineNonNegative(r) == IF r.ok /\ r.v.n < 0 THEN ZIssue ELSE r

\* zNumCoerce (server "zodhttp"): null and undefined pass through the
\* preprocess and are then rejected by z.number()
zNumCoerce(v) ==
  LET p == IF IsNullish(v) THEN v
           ELSE IF IsBlankString(v) THEN Null
           ELSE IF IsFinite(TrimmedNumber(v)) THEN TrimmedNumber(v) ELSE NaN
  IN  IF IsFinite(p) THEN ZOk(p) ELSE ZIssue

\* zNumCoerce.optional()
zNumCoerceOptional(v) == IF v = Undef THEN ZAbsent ELSE zNumCoerce(v)

\* zNumCoerce.nullable().optional()
zNumCoerceNullableOptional(v) ==
  IF v = Undef THEN ZAbsent ELSE IF v = Null THEN ZOk(Null) ELSE zNumCoerce(v)

\* z.object(shape).parse(raw), given the result of each field's schema
zObject(fields) ==
  [ ok     |-> \A k \in DOMAIN fields : fields[k].ok,
    issues |-> {k \in DOMAIN fields : ~fields[k].ok},
    data   |-> [k \in {j \in DOMAIN fields : fields[j].has} |-> fields[k].v] ]

ProjectCreate(srv, raw) ==
  IF srv = "zodhttp"
    THEN zObject(
      [ nombre            |-> zStringMin1(Get(raw, "nombre")),
        pais              |-> zStringMin1(Get(raw, "pais")),
        monto_oportunidad |-> refineNonNegative(zNumCoerce(Get(raw, "monto_oportunidad"))),
        pm                |-> zStringNullableOptional(Get(raw, "pm")),
        planned_hours     |-> zNumCoerceNullableOptional(Get(raw, "planned_hours")),
        hourly_rate       |-> zNumCoerceNullableOptional(Get(raw, "hourly_rate")),
        start_date        |-> zDateNullableOptional(Get(raw, "start_date")),
        end_date          |-> zDateNullableOptional(Get(raw, "end_date")) ])
    ELSE zObject(
      [ nombre            |-> zStringMin1(Get(raw, "nombre")),
        pais              |-> zStringMin1(Get(raw, "pais")),
        monto_oportunidad |-> refineNonNegative(
                                zNumberOrDefault(Num(0), Get(raw, "monto_oportunidad"))),
        pm                |-> zStrOpt(Get(raw, "pm")),
        planned_hours     |-> zNumNullable(Get(raw, "planned_hours")),
        hourly_rate       |-> zNumNullable(Get(raw, "hourly_rate")),
        start_date        |-> zDateOpt(Get(raw, "start_date")),
        end_date          |-> zDateOpt(Get(raw, "end_date")) ])

ProjectUpdate(srv, raw) ==
  IF srv = "zodhttp"
    THEN zObject(
      [ nombre            |-> zStringOptional(Get(raw, "nombre")),
        pais              |-> zStringOptional(Get(raw, "pais")),
        monto_oportunidad |-> zNumCoerceOptional(Get(raw, "monto_oportunidad")),
        pm                |-> zStringNullableOptional(Get(raw, "pm")),
        planned_hours     |-> zNumCoerceNullableOptional(Get(raw, "planned_hours")),
        hourly_rate       |-> zNumCoerceNullableOptional(Get(raw, "hourly_rate")),
        start_date        |-> zDateNullableOptional(Get(raw, "start_date")),
        end_date          |-> zDateNullableOptional(Get(raw, "end_date")),
        terminado         |-> zBooleanOptional(Get(raw, "terminado")) ])
    ELSE zObject(
      [ nombre            |-> zStringOptional(Get(raw, "nombre")),
        pais              |-> zStringOptional(Get(raw, "pais")),
        monto_oportunidad |-> zNumNullable(Get(raw, "monto_oportunidad")),
        pm                |-> zStrOpt(Get(raw, "pm")),
        planned_hours     |-> zNumNullable(Get(raw, "planned_hours")),
        hourly_rate       |-> zNumNullable(Get(raw, "hourly_rate")),
        start_date        |-> zDateOpt(Get(raw, "start_date")),
        end_date          |-> zDateOpt(Get(raw, "end_date")),
        terminado         |-> zBooleanOptional(Get(raw, "terminado")) ])

VisitCreate(srv, raw) ==
  IF srv = "zodhttp"
    THEN zObject(
      [ producto |-> zStringNullableOptional(Get(raw, "producto")),
        hora     |-> zStringNullableOptional(Get(raw, "hora")),
        activo   |-> zBooleanOptional(Get(raw, "activo")) ])
    ELSE zObject(
      [ producto |-> zStrOpt(Get(raw, "producto")),
        hora     |-> zStrOpt(Get(raw, "hora")),
        activo   |-> zBooleanOptional(Get(raw, "activo")) ])

(***************************************************************************)
(* Storage: the projects and visits tables.                                *)
(***************************************************************************)
Columns ==
  { "nombre", "pais", "pm", "monto_oportunidad", "planned_hours", "hourly_rate",
    "start_date", "end_date", "terminado", "observaciones", "activo",
    "fecha_creacion", "updated_at" }
VisitColumns == {"producto", "hora", "activo", "fecha_creacion"}

NumericColumns   == {"monto_oportunidad", "planned_hours", "hourly_rate"}
DateColumns      == {"start_date", "end_date"}
BooleanColumns   == {"terminado", "activo"}
TimestampColumns == {"fecha_creacion", "updated_at"}

SqlError == [t |-> "error", n |-> 0, s |-> ""]

\* The value a column takes from a statement parameter: node-pg sends
\* undefined as NULL; a numeric column parses a string, reads the text NaN
\* as its not-a-number value and refuses text that is no number; a boolean
\* column reads 1, "1", "true" and 0, "0", "false" (numbers are sent as
\* text) and refuses other text; a date column parses a string and refuses
\* text that is no date.
SqlCast(col, v) ==
  IF IsNullish(v) THEN Null
  ELSE IF col \in NumericColumns
    THEN (IF IsNumber(v) THEN v
          ELSE IF IsString(v) /\ v.s # "" /\ IsFinite(DecimalLiteral(v.s))
                 THEN DecimalLiteral(v.s)
          ELSE IF v = Str("NaN") THEN NaN
          ELSE SqlError)
  ELSE IF col \in BooleanColumns
    THEN (IF IsBoolean(v) THEN v
          ELSE IF v \in {Num(1), Str("1"), Str("true")} THEN Bool(TRUE)
          ELSE IF v \in {Num(0), Str("0"), Str("false")} THEN Bool(FALSE)
          ELSE SqlError)
  ELSE IF col \in DateColumns
    THEN (IF IsString(v) /\ PgDate(v.s) # "" THEN Str(PgDate(v.s)) ELSE SqlError)
  ELSE v

\* NOT NULL columns, from each server's ensureTables ("raw" has none)
NotNull(srv) ==
  CASE srv \in {"main", "norm"} -> {"nombre", "pais"}
    [] srv \in ZodServers       -> {"nombre", "pais", "monto_oportunidad", "terminado"}
    [] OTHER                    -> {}

\* column defaults (src/server.mjs, CREATE TABLE / ALTER TABLE)
ColumnDefault(col, t) ==
  CASE col \in NumericColumns   -> Num(0)
    [] col = "terminado"        -> Bool(FALSE)
    [] col = "activo"           -> Bool(TRUE)
    [] col = "observaciones"    -> Str("")
    [] col \in TimestampColumns -> Num(t)
    [] OTHER                    -> Null

\* INSERT INTO projects (<DOMAIN params>) VALUES (...)
InsertRow(params, t) ==
  [c \in Columns |->
     IF c \in DOMAIN params THEN SqlCast(c, params[c]) ELSE ColumnDefault(c, t)]

\* SET c = $i without COALESCE: the row takes the parameter, null included
OverwriteRow(old, params) ==
  [c \in Columns |-> IF c \in DOMAIN params THEN SqlCast(c, params[c]) ELSE old[c]]

\* UPDATE projects SET c = COALESCE($i, c), ...
CoalesceRow(old, params) ==
  [c \in Columns |->
     IF c \in DOMAIN params
       THEN (IF SqlCast(c, params[c]) = Null THEN old[c] ELSE SqlCast(c, params[c]))
       ELSE old[c]]

\* UPDATE projects SET c = $i, ...
AssignRow(old, params) ==
  [c \in Columns |-> IF c \in DOMAIN params THEN SqlCast(c, params[c]) ELSE old[c]]

\* ..., updated_at = NOW()
Touch(row, t) == [row EXCEPT !["updated_at"] = Num(t)]

\* the statement succeeds: every value fits its column, no NOT NULL breach
StorageOk(srv, row) ==
  \A c \in DOMAIN row : row[c] # SqlError /\ (c \in NotNull(srv) => row[c] # Null)

\* ORDER BY fecha_creacion (ascending, as without DESC) over the rows of `ids`
RECURSIVE OrderAsc(_, _)
OrderAsc(db, ids) ==
  IF ids = {} THEN << >>
  ELSE LET first == CHOOSE i \in ids :
                      \A j \in ids : db[i]["fecha_creacion"].n <= db[j]["fecha_creacion"].n
       IN  << first >> \o OrderAsc(db, ids \ {first})

\* ORDER BY fecha_creacion DESC over the rows of `ids`
RECURSIVE OrderDesc(_, _)
OrderDesc(db, ids) ==
  IF ids = {} THEN << >>
  ELSE LET first == CHOOSE i \in ids :
                      \A j \in ids : db[j]["fecha_creacion"].n <= db[i]["fecha_creacion"].n
       IN  << first >> \o OrderDesc(db, ids \ {first})

(***************************************************************************)
(* What a handler leaves behind: the table, and the response.              *)
(*   kind   "ok", "validation", "noop", "notfound", "noroute", "storage"   *)
(*   sent   a statement was handed to pool.query                           *)
(*   ids    the records in the response body, in order                     *)
(*   issues the fields a validation error names                            *)
(***************************************************************************)
Reply(db, status, kind, sent, ids, issues) ==
  [db |-> db, status |-> status, kind |-> kind, sent |-> sent, ids |-> ids,
   issues |-> issues]

\* Express finds no route for the method and path
NoRoute(db) == Reply(db, 404, "noroute", FALSE, << >>, {})

\* db with row `row` stored under `id`
Store(db, id, row) == [i \in DOMAIN db \cup {id} |-> IF i = id THEN row ELSE db[i]]

\* db without the row of `id`
Remove(db, id) == [i \in DOMAIN db \ {id} |-> db[i]]

\* the outcome of an INSERT of `row`
Inserted(srv, db, id, row) ==
  IF StorageOk(srv, row)
    THEN Reply(Store(db, id, row), 201, "ok", TRUE, << id >>, {})
    ELSE Reply(db, 500, "storage", TRUE, << >>, {})

\* the outcome of an UPDATE ... WHERE id = $n that computes `row`
Updated(srv, db, id, row) ==
  IF id \notin DOMAIN db THEN Reply(db, 404, "notfound", TRUE, << >>, {})
  ELSE IF StorageOk(srv, row) THEN Reply(Store(db, id, row), 200, "ok", TRUE, << id >>, {})
  ELSE Reply(db, 500, "storage", TRUE, << >>, {})

(***************************************************************************)
(* POST /api/projects                                                      *)
(***************************************************************************)
\* servers "main" and "norm": normalize, then INSERT
postProjectNormalized(srv, db, id, t, raw) ==
  LET p    == normalizeProjectPayload(srv, raw)
      base == [ nombre            |-> p.nombre,
                pais              |-> p.pais,
                monto_oportunidad |-> Nz(p.monto_oportunidad, Num(0)),
                pm                |-> p.pm,
                planned_hours     |-> Nz(p.planned_hours, Num(0)),
                hourly_rate       |-> Nz(p.hourly_rate, Num(0)),
                start_date        |-> p.start_date,
                end_date          |-> p.end_date,
                terminado         |-> p.terminado ]
      params == IF srv = "main"
                  THEN base @@ [ observaciones |-> Nz(p.observaciones, Str("")),
                                 activo        |-> Nz(p.activo, Bool(TRUE)) ]
                  ELSE base @@ [ observaciones |-> p.observaciones ]
  IN  Inserted(srv, db, id, InsertRow(params, t))

\* servers "zodflat", "zodenv", "zodhttp": ProjectCreate.parse, then INSERT
postProjectZod(srv, db, id, t, raw) ==
  LET parsed == ProjectCreate(srv, raw)
      d      == parsed.data
      params == [ nombre            |-> Get(d, "nombre"),
                  pais              |-> Get(d, "pais"),
                  monto_oportunidad |-> Get(d, "monto_oportunidad"),
                  pm                |-> IF Get(d, "pm") = Undef THEN Null ELSE d["pm"],
                  planned_hours     |-> IF Get(d, "planned_hours") = Undef
                                          THEN Null ELSE d["planned_hours"],
                  hourly_rate       |-> IF Get(d, "hourly_rate") = Undef
                                          THEN Null ELSE d["hourly_rate"],
                  start_date        |-> IF Get(d, "start_date") = Undef
                                          THEN Null ELSE d["start_date"],
                  end_date          |-> IF Get(d, "end_date") = Undef
                                          THEN Null ELSE d["end_date"] ]
  IN  IF ~parsed.ok
        THEN Reply(db, 400, "validation", FALSE, << >>, parsed.issues)
        ELSE Inserted(srv, db, id, InsertRow(params, t))

\* server "raw": destructure, trim, toNumber, INSERT with literal flags
postProjectRaw(srv, db, id, t, raw) ==
  LET nombre == OrElse(Get(raw, "nombre"), Str(""))
      pais   == OrElse(Get(raw, "pais"), Str(""))
      pm     == OrElse(Get(raw, "pm"), Str(""))
      params == [ nombre            |-> Str(Trim(nombre.s)),
                  pais              |-> Str(Trim(pais.s)),
                  pm                |-> Str(Trim(pm.s)),
                  monto_oportunidad |-> toNumber(Nz(Get(raw, "montoOportunidad"),
                                                    Get(raw, "monto_oportunidad")), Num(0)),
                  planned_hours     |-> toNumber(Get(raw, "planned_hours"), Num(0)),
                  hourly_rate       |-> toNumber(Get(raw, "hourly_rate"), Num(0)),
                  start_date        |-> toDateOrNull(Get(raw, "start_date")),
                  end_date          |-> toDateOrNull(Get(raw, "end_date")),
                  observaciones     |-> toJsonb(Get(raw, "observaciones"), EmptyJsonArray),
                  terminado         |-> Bool(FALSE),
                  activo            |-> Bool(TRUE) ]
  IN  IF ~(IsString(nombre) /\ IsString(pais) /\ IsString(pm))
        THEN Reply(db, 500, "exception", FALSE, << >>, {})
        ELSE Inserted(srv, db, id, InsertRow(params, t))

postProject(srv, db, id, t, raw) ==
  CASE srv \in {"main", "norm"} -> postProjectNormalized(srv, db, id, t, raw)
    [] srv \in ZodServers       -> postProjectZod(srv, db, id, t, raw)
    [] OTHER                    -> postProjectRaw(srv, db, id, t, raw)

(***************************************************************************)
(* PUT /api/projects/:id                                                   *)
(***************************************************************************)
\* servers "main" and "norm": normalize, then UPDATE ... COALESCE
putProjectNormalized(srv, db, id, t, raw) ==
  LET p    == normalizeProjectPayload(srv, raw)
      base == [ nombre            |-> p.nombre,
                pais              |-> p.pais,
                monto_oportunidad |-> p.monto_oportunidad,
                pm                |-> p.pm,
                planned_hours     |-> p.planned_hours,
                hourly_rate       |-> p.hourly_rate,
                start_date        |-> p.start_date,
                end_date          |-> p.end_date,
                terminado         |-> p.terminado ]
      params == IF srv = "main"
                  THEN base @@ [ observaciones |-> Nz(p.observaciones, Str("")),
                                 activo        |-> IF IsBoolean(p.activo)
                                                     THEN p.activo ELSE Null ]
                  ELSE base @@ [ observaciones |-> p.observaciones ]
  IN  IF id \notin DOMAIN db
        THEN Reply(db, 404, "notfound", TRUE, << >>, {})
        ELSE Updated(srv, db, id, Touch(CoalesceRow(db[id], params), t))

\* server "zodflat": the body's own keys go to UPDATE ... COALESCE unparsed
putProjectFlat(srv, db, id, t, raw) ==
  LET params == [ nombre            |-> Get(raw, "nombre"),
                  pais              |-> Get(raw, "pais"),
                  monto_oportunidad |-> Get(raw, "monto_oportunidad"),
                  pm                |-> Get(raw, "pm"),
                  planned_hours     |-> Get(raw, "planned_hours"),
                  hourly_rate       |-> Get(raw, "hourly_rate"),
                  start_date        |-> Get(raw, "start_date"),
                  end_date          |-> Get(raw, "end_date"),
                  terminado         |-> Get(raw, "terminado"),
                  observaciones     |-> Get(raw, "observaciones") ]
  IN  IF id \notin DOMAIN db
        THEN Reply(db, 404, "notfound", TRUE, << >>, {})
        ELSE Updated(srv, db, id, Touch(CoalesceRow(db[id], params), t))

\* server "zodenv" (the first of its two registrations answers): every key
\* of the parsed object is assigned; the response carries no record
putProjectEnvelope(srv, db, id, t, raw) ==
  LET parsed == ProjectUpdate(srv, raw)
      fields == DOMAIN parsed.data
  IN  IF ~parsed.ok THEN Reply(db, 400, "validation", FALSE, << >>, parsed.issues)
      ELSE IF fields = {} THEN Reply(db, 400, "noop", FALSE, << >>, {})
      ELSE IF id \notin DOMAIN db THEN Reply(db, 404, "notfound", TRUE, << >>, {})
      ELSE LET r == Updated(srv, db, id, Touch(AssignRow(db[id], parsed.data), t))
           IN  [r EXCEPT !.ids = << >>]

\* server "zodhttp": the allowed keys the parsed object owns are assigned
putProjectAllowed(srv, db, id, t, raw) ==
  LET parsed == ProjectUpdate(srv, raw)
      sets   == DOMAIN parsed.data
  IN  IF ~parsed.ok THEN Reply(db, 400, "validation", FALSE, << >>, parsed.issues)
      ELSE IF sets = {} THEN Reply(db, 400, "noop", FALSE, << >>, {})
      ELSE IF id \notin DOMAIN db THEN Reply(db, 404, "notfound", TRUE, << >>, {})
      ELSE Updated(srv, db, id, AssignRow(db[id], parsed.data))

\* server "raw": destructure, optional trim, COALESCE
trimOptional(v) == IF IsNullish(v) THEN Undef ELSE Str(Trim(v.s))
putProjectRaw(srv, db, id, t, raw) ==
  LET params == [ nombre            |-> trimOptional(Get(raw, "nombre")),
                  pais              |-> trimOptional(Get(raw, "pais")),
                  pm                |-> trimOptional(Get(raw, "pm")),
                  monto_oportunidad |-> toNumber(Nz(Get(raw, "montoOportunidad"),
                                                    Get(raw, "monto_oportunidad")), Null),
                  planned_hours     |-> toNumber(Get(raw, "planned_hours"), Null),
                  hourly_rate       |-> toNumber(Get(raw, "hourly_rate"), Null),
                  start_date        |-> toDateOrNull(Get(raw, "start_date")),
                  end_date          |-> toDateOrNull(Get(raw, "end_date")),
                  terminado         |-> IF IsBoolean(Get(raw, "terminado"))
                                          THEN Get(raw, "terminado") ELSE Null,
                  activo            |-> IF IsBoolean(Get(raw, "activo"))
                                          THEN Get(raw, "activo") ELSE Null,
                  observaciones     |-> IF Get(raw, "observaciones") # Undef
                                          THEN toJsonb(Get(raw, "observaciones"),
                                                       EmptyJsonArray)
                                          ELSE Null ]
      strings == \A k \in {"nombre", "pais", "pm"} :
                    IsNullish(Get(raw, k)) \/ IsString(Get(raw, k))
  IN  IF ~strings THEN Reply(db, 500, "exception", FALSE, << >>, {})
      ELSE IF id \notin DOMAIN db THEN Reply(db, 404, "notfound", TRUE, << >>, {})
      ELSE Updated(srv, db, id, Touch(CoalesceRow(db[id], params), t))

putProject(srv, db, id, t, raw) ==
  CASE srv \in {"main", "norm"} -> putProjectNormalized(srv, db, id, t, raw)
    [] srv = "zodflat"          -> putProjectFlat(srv, db, id, t, raw)
    [] srv = "zodenv"           -> putProjectEnvelope(srv, db, id, t, raw)
    [] srv = "zodhttp"          -> putProjectAllowed(srv, db, id, t, raw)
    [] OTHER                    -> putProjectRaw(srv, db, id, t, raw)

(***************************************************************************)
(* DELETE /api/projects/:id, GET /api/projects/:id, GET /api/projects      *)
(***************************************************************************)
\* servers "zodenv", "raw", "zodhttp": DELETE FROM projects; the others
\* register no DELETE route for projects
deleteProject(srv, db, id) ==
  IF srv \in {"zodenv", "raw", "zodhttp"}
    THEN (IF id \in DOMAIN db
            THEN Reply(Remove(db, id), 200, "ok", TRUE, << >>, {})
            ELSE Reply(db, 404, "notfound", TRUE, << >>, {}))
    ELSE NoRoute(db)

\* every server but "raw": SELECT * FROM projects WHERE id = $1
getProject(srv, db, id) ==
  IF srv = "raw" THEN NoRoute(db)
  ELSE IF id \in DOMAIN db THEN Reply(db, 200, "ok", TRUE, << id >>, {})
  ELSE Reply(db, 404, "notfound", TRUE, << >>, {})

\* COALESCE(flag, def) = want
FlagIs(v, def, want) == (IF v = Null THEN Bool(def) ELSE v) = Bool(want)

\* servers "main" and "raw" filter on ?status=active alone; the others (and
\* the first registration of "zodenv") select every row
listProjects(srv, db, status) ==
  LET wanted == IF srv \in {"main", "raw"} /\ status = "active"
                  THEN {i \in DOMAIN db : /\ FlagIs(db[i]["activo"], TRUE, TRUE)
                                          /\ FlagIs(db[i]["terminado"], FALSE, FALSE)}
                  ELSE DOMAIN db
  IN  Reply(db, 200, "ok", TRUE, OrderDesc(db, wanted), {})

(***************************************************************************)
(* /api/visits                                                             *)
(***************************************************************************)
\* "main", "norm": the body goes to INSERT unparsed; zod servers parse it
\* with VisitCreate; "raw" has no visits routes
postVisit(srv, db, id, t, raw) ==
  IF srv = "raw" THEN NoRoute(db)
  ELSE IF srv \in ZodServers
    THEN LET parsed == VisitCreate(srv, raw)
             d      == parsed.data
             row    == [ producto       |-> Nz(Get(d, "producto"), Null),
                         hora           |-> Nz(Get(d, "hora"), Null),
                         activo         |-> IF Get(d, "activo") = Undef
                                              THEN Bool(TRUE) ELSE d["activo"],
                         fecha_creacion |-> Num(t) ]
         IN  IF ~parsed.ok
               THEN Reply(db, 400, "validation", FALSE, << >>, parsed.issues)
               ELSE Reply(Store(db, id, row), 201, "ok", TRUE, << id >>, {})
  ELSE LET row == [ producto       |-> Nz(Get(raw, "producto"), Null),
                    hora           |-> Nz(Get(raw, "hora"), Null),
                    activo         |-> Bool(TRUE),
                    fecha_creacion |-> Num(t) ]
       IN  Reply(Store(db, id, row), 201, "ok", TRUE, << id >>, {})

\* SELECT * FROM visits WHERE activo = true; the status query is not read
listVisits(srv, db, status) ==
  IF srv = "raw" THEN NoRoute(db)
  ELSE Reply(db, 200, "ok", TRUE,
             OrderDesc(db, {i \in DOMAIN db : db[i]["activo"] = Bool(TRUE)}), {})

\* zod servers: UPDATE visits SET activo = false; the others have no route
deleteVisit(srv, db, id) ==
  IF srv \notin ZodServers THEN NoRoute(db)
  ELSE IF id \in DOMAIN db
    THEN Reply(Store(db, id, [db[id] EXCEPT !["activo"] = Bool(FALSE)]),
               200, "ok", TRUE, << >>, {})
  ELSE Reply(db, 404, "notfound", TRUE, << >>, {})

(***************************************************************************)
(* Requests.  A body is a JSON object: a function from the keys it carries *)
(* to their values.                                                        *)
(***************************************************************************)
MaxProjects == 2
MaxVisits   == 1
MaxClock    == 3

ProjectKeys ==
  { "nombre", "pais", "country", "pm", "monto_oportunidad", "planned_hours",
    "terminado", "observaciones", "activo" }

ProjectValues(k) ==
  CASE k = "nombre"            -> {Str("a"), Str("b")}
    [] k = "pais"              -> {Str(""), Str("cl")}
    [] k = "country"           -> {Str("cl")}
    [] k = "pm"                -> {Null, Str(""), Str("p")}
    [] k = "monto_oportunidad" -> {Null, Num(5), Num(0 - 1)}
    [] k = "planned_hours"     -> {Null, Num(40)}
    [] k = "terminado"         -> {Bool(TRUE), Bool(FALSE)}
    [] k = "observaciones"     -> {Str("note")}
    [] OTHER                   -> {Bool(TRUE), Bool(FALSE)}

VisitKeys == {"producto", "hora", "activo"}

VisitValues(k) ==
  CASE k = "producto" -> {Str("demo")}
    [] k = "hora"     -> {Str("2"), Str("0")}
    [] OTHER          -> {Bool(FALSE)}

AnyValue ==
  UNION {ProjectValues(k) : k \in ProjectKeys} \cup UNION {VisitValues(k) : k \in VisitKeys}

EmptyBody == [k \in {} |-> Undef]

\* the project bodies that carry exactly the keys of K
BodiesOver(K) == {b \in [K -> AnyValue] : \A k \in K : b[k] \in ProjectValues(k)}
VisitBodiesOver(K) == {b \in [K -> AnyValue] : \A k \in K : b[k] \in VisitValues(k)}

\* body `base` with the keys of `b` set as in `b`
Override(base, b) ==
  [k \in DOMAIN base \cup DOMAIN b |-> IF k \in DOMAIN b THEN b[k] ELSE base[k]]

\* the empty body and the bodies of one key
SingleBodies ==
  UNION {BodiesOver(K) : K \in {S \in SUBSET ProjectKeys : Cardinality(S) <= 1}}

\* a complete create body and one that lacks the country, each as it is
\* and with one key changed or added
FullCreate == [nombre |-> Str("a"), pais |-> Str("cl"), monto_oportunidad |-> Num(5)]
NoCountryCreate == [nombre |-> Str("a"), monto_oportunidad |-> Num(5)]
CreateBodies ==
  {Override(base, b) : base \in {FullCreate, NoCountryCreate}, b \in SingleBodies}

\* the empty body, the bodies of one key, and the two-key bodies in which
\* an alias meets its canonical key or the two status flags meet
UpdateBodies ==
  SingleBodies \cup BodiesOver({"pais", "country"}) \cup BodiesOver({"terminado", "activo"})

VisitBodies == UNION {VisitBodiesOver(K) : K \in SUBSET VisitKeys}

StatusQueries == {"", "active", "archived"}

(***************************************************************************)
(* State.                                                                  *)
(*   server    the revision this deployment runs                           *)
(*   projects  the projects table: id -> row                               *)
(*   visits    the visits table: id -> row                                 *)
(*   nextId, nextVisit  the identities the next INSERTs take               *)
(*   now       the time of the latest request (NOW() of its statement)     *)
(*   req, res  the latest request and the response to it                   *)
(*   pre, vpre the two tables as that request found them                   *)
(*   inflight  the update requests the server has received and whose       *)
(*             statement has not run yet, with the requests they came with *)
(***************************************************************************)
VARIABLES server, projects, visits, nextId, nextVisit, now, req, res, pre, vpre,
          inflight

vars == << server, projects, visits, nextId, nextVisit, now, req, res, pre, vpre,
          inflight >>

EmptyTable == [i \in {} |-> Null]

Request(op, id, status, body) == [op |-> op, id |-> id, status |-> status, body |-> body]

Response(r) ==
  [status |-> r.status, kind |-> r.kind, sent |-> r.sent, ids |-> r.ids,
   issues |-> r.issues]

\* no request is waiting for its statement
NoneInFlight == [id |-> 0, pending |-> {}, both |-> {}, ok |-> {}]

Init ==
  /\ server \in Servers
  /\ projects = EmptyTable
  /\ visits = EmptyTable
  /\ nextId = 1
  /\ nextVisit = 1
  /\ now = 0
  /\ req = Request("none", 0, "", EmptyBody)
  /\ res = [status |-> 0, kind |-> "none", sent |-> FALSE, ids |-> << >>, issues |-> {}]
  /\ pre = EmptyTable
  /\ vpre = EmptyTable
  /\ inflight = NoneInFlight

\* the statement of a request on the projects table runs and r is sent
ProjectStatement(rq, r) ==
  /\ now < MaxClock
  /\ now' = now + 1
  /\ req' = rq
  /\ res' = Response(r)
  /\ pre' = projects
  /\ vpre' = visits
  /\ projects' = r.db
  /\ UNCHANGED << server, visits, nextVisit >>

\* a request on the projects table, received and answered by r at once
ProjectStep(rq, r) ==
  /\ ProjectStatement(rq, r)
  /\ UNCHANGED inflight

\* a request on the visits table, answered by r
VisitStep(rq, r) ==
  /\ now < MaxClock
  /\ now' = now + 1
  /\ req' = rq
  /\ res' = Response(r)
  /\ pre' = projects
  /\ vpre' = visits
  /\ visits' = r.db
  /\ UNCHANGED << server, projects, nextId, inflight >>

CreateProject ==
  \E raw \in CreateBodies :
    /\ nextId <= MaxProjects
    /\ LET r == postProject(server, projects, nextId, now + 1, raw)
       IN  /\ ProjectStep(Request("createProject", nextId, "", raw), r)
           /\ nextId' = IF r.kind = "ok" THEN nextId + 1 ELSE nextId

UpdateProject ==
  \E id \in 1..nextId, raw \in UpdateBodies :
    /\ ProjectStep(Request("updateProject", id, "", raw),
                   putProject(server, projects, id, now + 1, raw))
    /\ UNCHANGED nextId

DeleteProject ==
  \E id \in 1..nextId :
    /\ ProjectStep(Request("deleteProject", id, "", EmptyBody),
                   deleteProject(server, projects, id))
    /\ UNCHANGED nextId

GetProject ==
  \E id \in 1..nextId :
    /\ ProjectStep(Request("getProject", id, "", EmptyBody),
                   getProject(server, projects, id))
    /\ UNCHANGED nextId

ListProjects ==
  \E status \in StatusQueries :
    /\ ProjectStep(Request("listProjects", 0, status, EmptyBody),
                   listProjects(server, projects, status))
    /\ UNCHANGED nextId

CreateVisit ==
  \E raw \in VisitBodies :
    /\ nextVisit <= MaxVisits
    /\ LET r == postVisit(server, visits, nextVisit, now + 1, raw)
       IN  /\ VisitStep(Request("createVisit", nextVisit, "", raw), r)
           /\ nextVisit' = IF r.kind = "ok" THEN nextVisit + 1 ELSE nextVisit

DeleteVisit ==
  \E id \in 1..nextVisit :
    /\ VisitStep(Request("deleteVisit", id, "", EmptyBody),
                 deleteVisit(server, visits, id))
    /\ UNCHANGED nextVisit

ListVisits ==
  \E status \in StatusQueries :
    /\ VisitStep(Request("listVisits", 0, status, EmptyBody),
                 listVisits(server, visits, status))
    /\ UNCHANGED nextVisit

Next ==
  \/ CreateProject
  \/ UpdateProject
  \/ DeleteProject
  \/ GetProject
  \/ ListProjects
  \/ CreateVisit
  \/ DeleteVisit
  \/ ListVisits

Spec == Init /\ [][Next]_vars

(***************************************************************************)
(* Vocabulary of the properties.                                           *)
(***************************************************************************)
Range(seq) == {seq[i] : i \in DOMAIN seq}

\* the project the latest request addressed, as the request found it and
\* as it left it
Target == req.id
Found  == Target \in DOMAIN pre
Kept   == Target \in DOMAIN projects

\* the body keys under which a request may carry a column
Aliases(c) ==
  CASE c = "nombre"            -> {"nombre", "project_name"}
    [] c = "pais"              -> {"pais", "country"}
    [] c = "pm"                -> {"pm", "pm_asignado", "pmAsignado"}
    [] c = "monto_oportunidad" -> {"monto_oportunidad", "montoOportunidad", "monto"}
    [] c = "planned_hours"     -> {"planned_hours", "horas_planificadas", "horasPlanificadas"}
    [] c = "terminado"         -> {"terminado", "finalizado"}
    [] OTHER                   -> {c}

\* the columns an update request may set
Updatable == Columns \ TimestampColumns

\* the body carries column c under none of its aliases
AbsentFrom(body, c) == Aliases(c) \cap DOMAIN body = {}

\* the country of a create body: pais, else country
CountryOf(body) == Nz(Get(body, "pais"), Get(body, "country"))
LacksCountry(body) == IsNullish(CountryOf(body)) \/ CountryOf(body) = Str("")

\* C1: archiving a project whose terminado is false is refused and changes
\* nothing: every stored field, activo included, is as before and the
\* record still exists.
C1_ArchiveUnfinishedRefused ==
  (req.op = "deleteProject" /\ Found /\ pre[Target]["terminado"] # Bool(TRUE))
    => (res.status >= 400 /\ projects = pre)

\* C2: a project's activo goes from true to false only in a step taken
\* while its terminado is true; an update carrying activo=false does not
\* deactivate a project that is not finalized.
C2_DeactivateOnlyFinalized ==
  \A i \in DOMAIN pre \cap DOMAIN projects :
    (pre[i]["activo"] = Bool(TRUE) /\ projects[i]["activo"] = Bool(FALSE))
      => pre[i]["terminado"] = Bool(TRUE)

\* C3: an update leaves every stored field that the body carries under no
\* alias as it was (terminado and observaciones included): an absent field
\* is never overwritten with null, false or the empty string.
C3_AbsentFieldsUntouched ==
  (req.op = "updateProject" /\ Found /\ Kept)
    => \A c \in Updatable :
         AbsentFrom(req.body, c) => projects[Target][c] = pre[Target][c]

\* C4: no request removes a project: every project ever created is still
\* stored, and getById (where the server has the route) returns it.
C4_NoPhysicalDelete ==
  /\ \A i \in 1..(nextId - 1) : i \in DOMAIN projects
  /\ (req.op = "getProject" /\ Target < nextId /\ res.kind # "noroute")
       => (res.kind = "ok" /\ res.ids = << Target >>)

\* C5: once a project's activo is false, no request sets it back to true.
C5_NoUnarchive ==
  \A i \in DOMAIN pre \cap DOMAIN projects :
    pre[i]["activo"] = Bool(FALSE) => projects[i]["activo"] = Bool(FALSE)

\* the value the specification's normalizer gives a present input: an
\* optional text that is empty after trimming is null, other text is
\* trimmed, numbers and flags are kept
Canonical(k, v) ==
  IF IsString(v)
    THEN (IF k = "pm" /\ Trim(v.s) = "" THEN Null ELSE Str(Trim(v.s)))
    ELSE v

\* C6: a successful update stores every field the body carries as exactly
\* its normalized value; a present optional field whose normalized value is
\* null (explicit null, empty string) is stored as null.
C6_PresentFieldsStored ==
  (req.op = "updateProject" /\ res.kind = "ok" /\ Kept)
    => \A k \in {"nombre", "pm", "planned_hours", "terminado"} \cap DOMAIN req.body :
         projects[Target][k] = Canonical(k, req.body[k])

\* C7: list(status=active) returns no record with activo=false,
\* list(status=archived) none with activo=true, and every stored record is
\* in exactly one of the two listings; for projects and for visits.
C7_ListingsPartition ==
  LET pa == Range(listProjects(server, projects, "active").ids)
      pz == Range(listProjects(server, projects, "archived").ids)
      va == Range(listVisits(server, visits, "active").ids)
      vz == Range(listVisits(server, visits, "archived").ids)
  IN  /\ \A i \in DOMAIN projects :
           /\ (i \in pa) # (i \in pz)
           /\ i \in pa => projects[i]["activo"] = Bool(TRUE)
           /\ i \in pz => projects[i]["activo"] = Bool(FALSE)
      /\ \A i \in DOMAIN visits :
           /\ (i \in va) # (i \in vz)
           /\ i \in va => visits[i]["activo"] = Bool(TRUE)
           /\ i \in vz => visits[i]["activo"] = Bool(FALSE)

\* C8: an update whose body carries none of the updatable fields is
\* rejected as a client error and changes nothing in the stored project,
\* updated_at included.
C8_EmptyUpdateRejected ==
  (req.op = "updateProject" /\ Found /\ \A c \in Updatable : AbsentFrom(req.body, c))
    => (res.status = 400 /\ projects = pre)

\* C9: a create whose input has no country (pais/country missing or empty)
\* is rejected with a validation error naming the country field, not a
\* storage error, and no record is created.
C9_CreateWithoutCountryRejected ==
  (req.op = "createProject" /\ LacksCountry(req.body))
    => (res.kind = "validation" /\ "pais" \in res.issues /\ projects = pre)

\* the validation rules of the specification, on the modelled fields:
\* create needs a non-empty name and country and an amount >= 0; an update
\* needs at least one field, and no negative amount; a visit needs a
\* duration that is a number > 0
ViolatesRule(r) ==
  LET monto == Get(r.body, "monto_oportunidad")
      hora  == Get(r.body, "hora")
  IN  CASE r.op = "createProject" ->
             \/ IsNullish(Get(r.body, "nombre")) \/ Get(r.body, "nombre") = Str("")
             \/ LacksCountry(r.body)
             \/ (IsNumber(monto) /\ monto.n < 0)
        [] r.op = "updateProject" ->
             \/ \A c \in Updatable : AbsentFrom(r.body, c)
             \/ (IsNumber(monto) /\ monto.n < 0)
        [] r.op = "createVisit" ->
             \/ IsNullish(hora)
             \/ ~IsFinite(JsNumber(hora))
             \/ JsNumber(hora).n <= 0
        [] OTHER -> FALSE

\* C10: a create or update whose input violates a normalization or
\* validation rule is rejected before any storage call: the handler sends
\* no statement.
C10_InvalidNeverReachesStorage ==
  (ViolatesRule(req) /\ res.kind # "noroute") => ~res.sent

\* C11: every successful project update sets the project's updated_at to
\* the time of that update; none leaves it at its previous value.
C11_UpdateTouchesTimestamp ==
  (req.op = "updateProject" /\ res.kind = "ok" /\ Kept)
    => projects[Target]["updated_at"] = Num(now)

(***************************************************************************)
(* Requests that carry dates.                                              *)
(***************************************************************************)
\* one create request with body raw
CreateWith(raw) ==
  /\ nextId <= MaxProjects
  /\ LET r == postProject(server, projects, nextId, now + 1, raw)
     IN  /\ ProjectStep(Request("createProject", nextId, "", raw), r)
         /\ nextId' = IF r.kind = "ok" THEN nextId + 1 ELSE nextId

\* one update request for project id with body raw
UpdateWith(id, raw) ==
  /\ ProjectStep(Request("updateProject", id, "", raw),
                 putProject(server, projects, id, now + 1, raw))
  /\ UNCHANGED nextId

DateKeys   == {"start_date", "end_date"}
DateValues == {Str("2024-01-05"), Str("2024-01-10")}

\* the bodies that carry some of the two dates and nothing else
DatedBodies == UNION {[K -> DateValues] : K \in SUBSET DateKeys}

\* a complete create body with some of the two dates; an update body with
\* some of the two dates, alone or next to an amount
DatedCreateBodies == {Override(FullCreate, b) : b \in DatedBodies}
DatedUpdateBodies ==
  DatedBodies \cup {Override([monto_oportunidad |-> Num(5)], b) : b \in DatedBodies}

CreateDatedProject == \E raw \in DatedCreateBodies : CreateWith(raw)

UpdateDatedProject == \E id \in 1..nextId, raw \in DatedUpdateBodies : UpdateWith(id, raw)

NextDates ==
  \/ CreateDatedProject
  \/ UpdateDatedProject

SpecDates == Init /\ [][NextDates]_vars

\* C12: no stored project has both dates with the end date before the
\* start date; a create or update that would store such a record is
\* rejected.
C12_StartNotAfterEnd ==
  \A i \in DOMAIN projects :
    (projects[i]["start_date"] # Null /\ projects[i]["end_date"] # Null)
      => DayOf(projects[i]["start_date"].s) <= DayOf(projects[i]["end_date"].s)

\* C13: every stored project's monto_oportunidad is a finite number >= 0,
\* after creates and after updates alike.
C13_AmountNonNegative ==
  \A i \in DOMAIN projects :
    /\ IsFinite(projects[i]["monto_oportunidad"])
    /\ projects[i]["monto_oportunidad"].n >= 0

(***************************************************************************)
(* Requests that carry numbers as text.                                    *)
(***************************************************************************)
NumericKeys == {"planned_hours", "hourly_rate"}

NumericValues(k) ==
  IF k = "planned_hours" THEN {Str("40"), Num(40)}
  ELSE {Str("50,5"), Str("50.5"), Num(5)}

\* the bodies that carry some of the two numeric keys and nothing else
NumericBodies ==
  UNION { {b \in [K -> AnyValue \cup NumericValues("planned_hours")
                              \cup NumericValues("hourly_rate")] :
              \A k \in K : b[k] \in NumericValues(k)} : K \in SUBSET NumericKeys }

NumericCreateBodies == {Override(FullCreate, b) : b \in NumericBodies}
NumericUpdateBodies ==
  NumericBodies \cup {Override([monto_oportunidad |-> Num(5)], b) : b \in NumericBodies}

CreateNumericProject == \E raw \in NumericCreateBodies : CreateWith(raw)

UpdateNumericProject ==
  \E id \in 1..nextId, raw \in NumericUpdateBodies : UpdateWith(id, raw)

NextNumeric ==
  \/ CreateNumericProject
  \/ UpdateNumericProject

SpecNumeric == Init /\ [][NextNumeric]_vars

\* C14: a create whose numeric fields are strings, one with a comma as the
\* decimal separator, stores the numbers with the comma read as a decimal
\* point: planned_hours "40" and hourly_rate "50,5" give a stored record
\* with planned_hours = 40, hourly_rate = 50.5, terminado = false and
\* activo = true.
C14_CommaDecimalStored ==
  ( /\ req.op = "createProject"
    /\ Get(req.body, "planned_hours") = Str("40")
    /\ Get(req.body, "hourly_rate") = Str("50,5") )
    => /\ res.kind = "ok"
       /\ Kept
       /\ projects[Target]["planned_hours"] = Num(40)
       /\ projects[Target]["hourly_rate"] = Dec(50, ".5")
       /\ projects[Target]["terminado"] = Bool(FALSE)
       /\ projects[Target]["activo"] = Bool(TRUE)

\* C15: soft-deleting a stored visit succeeds whatever its fields hold, sets
\* its activo to false and changes nothing else, so the record stays stored
\* and a second delete succeeds again and leaves it as the first one did.
C15_VisitSoftDelete ==
  (req.op = "deleteVisit" /\ req.id \in DOMAIN vpre)
    => /\ res.kind = "ok"
       /\ visits = [vpre EXCEPT ![req.id]["activo"] = Bool(FALSE)]

(***************************************************************************)
(* Listings of several records.                                            *)
(***************************************************************************)
MaxListed == 2

\* create bodies whose records the status filters tell apart
ListedCreateBodies ==
  { FullCreate,
    Override(FullCreate, [terminado |-> Bool(TRUE)]),
    Override(FullCreate, [activo |-> Bool(FALSE)]) }

CreateListedProject == \E raw \in ListedCreateBodies : CreateWith(raw)

CreateListedVisit ==
  /\ nextVisit <= MaxListed
  /\ LET r == postVisit(server, visits, nextVisit, now + 1, [producto |-> Str("demo")])
     IN  /\ VisitStep(Request("createVisit", nextVisit, "", [producto |-> Str("demo")]), r)
         /\ nextVisit' = IF r.kind = "ok" THEN nextVisit + 1 ELSE nextVisit

NextList ==
  \/ CreateListedProject
  \/ CreateListedVisit
  \/ DeleteProject
  \/ DeleteVisit
  \/ ListProjects
  \/ ListVisits

SpecList == Init /\ [][NextList]_vars

\* position by position, no record follows one that was created before it
NewestFirst(db, ids) ==
  \A i, j \in DOMAIN ids :
    i < j => db[ids[i]]["fecha_creacion"].n >= db[ids[j]]["fecha_creacion"].n

Wraps(srv, op) ==
  IF srv \in {"zodenv", "zodhttp"}
  THEN op \in {"listProjects", "getProject", "createProject", "updateProject",
               "listVisits", "createVisit"}
  ELSE FALSE

RecordOps == {"createProject", "updateProject", "getProject"}
ShapedOps == RecordOps \cup {"listProjects"}

\* C17: within one deployment every successful create, update, getById and
\* list response uses one shape convention (all flat or all wrapped), and
\* every successful update returns the full updated record.
C17_OneShapeFullRecord ==
  (res.kind = "ok" /\ req.op \in ShapedOps)
    => /\ \A op \in ShapedOps : Wraps(server, op) = Wraps(server, req.op)
       /\ req.op = "updateProject" => res.ids = << req.id >>

(***************************************************************************)
(* What the catch block of a handler sends after a failed query.           *)
(***************************************************************************)
\* TRUE when the 500 body of the handler carries the driver's message
\* (error: e.message, detail: err.message, detalle: error.message)
SendsDriverMessage(srv, op) ==
  CASE srv = "main"    -> op \in {"getProject", "createProject", "updateProject",
                                  "listVisits", "createVisit"}
    [] srv = "norm"    -> op \in {"listProjects", "getProject", "updateProject",
                                  "listVisits", "createVisit"}
    [] srv = "zodflat" -> op = "updateProject"
    [] srv = "raw"     -> op \in {"createProject", "updateProject", "deleteProject"}
    [] OTHER           -> FALSE

\* C18: when the storage round-trip of a request fails, the caller gets an
\* opaque server error that holds no text taken from the storage error.
C18_StorageErrorOpaque ==
  res.kind = "storage" => ~SendsDriverMessage(server, req.op)

(***************************************************************************)
(* Two updates of one project in flight at the same time.  Each PUT        *)
(* handler computes its parameters from its own body and awaits a single   *)
(* UPDATE statement, so the statements of two requests run in either order.*)
(***************************************************************************)
\* update bodies of one key each, with values the columns store as sent
RacedUpdateBodies ==
  { [terminado |-> Bool(TRUE)],
    [nombre |-> Str("b")],
    [monto_oportunidad |-> Num(0)],
    [activo |-> Bool(FALSE)] }

CreateRacedProject == CreateWith(FullCreate) /\ UNCHANGED inflight

\* two requests with disjoint keys reach the server for a stored project
ReceiveUpdates ==
  \E id \in DOMAIN projects, a, b \in RacedUpdateBodies :
    /\ inflight.both = {}
    /\ DOMAIN a \cap DOMAIN b = {}
    /\ inflight' = [id |-> id, pending |-> {a, b}, both |-> {a, b}, ok |-> {}]
    /\ UNCHANGED << server, projects, visits, nextId, nextVisit, now, req, res,
                    pre, vpre >>

\* the statement of one of the waiting requests runs
RunUpdate ==
  \E raw \in inflight.pending :
    LET r == putProject(server, projects, inflight.id, now + 1, raw)
    IN  /\ ProjectStatement(Request("updateProject", inflight.id, "", raw), r)
        /\ inflight' = [inflight EXCEPT !.pending = @ \ {raw},
                                        !.ok = IF r.kind = "ok" THEN @ \cup {raw} ELSE @]
        /\ UNCHANGED nextId

NextRace ==
  \/ CreateRacedProject
  \/ ReceiveUpdates
  \/ RunUpdate

SpecRace == Init /\ [][NextRace]_vars

\* C19: two updates of one project that are in flight together and touch
\* disjoint fields both end stored, whatever the order of their statements:
\* neither overwrites a field that only the other one sent.
C19_DisjointUpdatesBothStored ==
  ( /\ inflight.both # {}
    /\ inflight.pending = {}
    /\ inflight.ok = inflight.both )
    => \A raw \in inflight.both : \A k \in DOMAIN raw :
         projects[inflight.id][k] = raw[k]

(***************************************************************************)
(* Requests that carry one field under several of its names.               *)
(***************************************************************************)
AliasedKeys == {"monto_oportunidad", "montoOportunidad", "pais", "country"}

AliasedValues(k) ==
  CASE k = "monto_oportunidad" -> {Null, Num(5)}
    [] k = "montoOportunidad"  -> {Num(7)}
    [] k = "pais"              -> {Null, Str("cl")}
    [] OTHER                   -> {Str("ar")}

AliasedBodies ==
  UNION { {b \in [K -> UNION {AliasedValues(k) : k \in AliasedKeys}] :
             \A k \in K : b[k] \in AliasedValues(k)} :
          K \in SUBSET AliasedKeys }

AliasedCreateBodies == {Override([nombre |-> Str("a")], b) : b \in AliasedBodies}

CreateAliasedProject == \E raw \in AliasedCreateBodies : CreateWith(raw)

UpdateAliasedProject ==
  \E id \in DOMAIN projects, raw \in AliasedBodies : UpdateWith(id, raw)

NextAlias ==
  \/ CreateAliasedProject
  \/ UpdateAliasedProject

SpecAlias == Init /\ [][NextAlias]_vars

\* the names of a column in the stated order: canonical snake case, then
\* camelCase, then legacy / English
AliasOrder(c) ==
  CASE c = "monto_oportunidad" -> << "monto_oportunidad", "montoOportunidad", "monto" >>
    [] c = "pais"              -> << "pais", "country" >>
    [] OTHER                   -> << c >>

\* the value under the first name of `order` that the body defines
RECURSIVE FirstDefined(_, _)
FirstDefined(body, order) ==
  IF order = << >> THEN Undef
  ELSE IF Head(order) \in DOMAIN body /\ body[Head(order)] # Undef
         THEN body[Head(order)]
         ELSE FirstDefined(body, Tail(order))

AliasedColumns == {"monto_oportunidad", "pais"}

\* the body with each aliased column under its canonical name only,
\* holding the value of the first defined name
Resolved(body) ==
  LET names == UNION {Range(AliasOrder(c)) : c \in AliasedColumns}
      kept  == (DOMAIN body \ names)
                 \cup {c \in AliasedColumns : FirstDefined(body, AliasOrder(c)) # Undef}
  IN  [k \in kept |-> IF k \in AliasedColumns
                        THEN FirstDefined(body, AliasOrder(k))
                        ELSE body[k]]

\* C20: every create and update handler takes, for each field, the value of
\* the first name that is not undefined, canonical snake case before
\* camelCase before legacy, so an explicit null under an earlier name wins:
\* the request leaves the table as the same request with each field under
\* its canonical name and that value would.
C20_FirstDefinedAliasWins ==
  /\ req.op = "createProject"
       => projects = postProject(server, pre, req.id, now, Resolved(req.body)).db
  /\ req.op = "updateProject"
       => projects = putProject(server, pre, req.id, now, Resolved(req.body)).db

(***************************************************************************)
(* Requests that carry a date in one of several forms.                     *)
(***************************************************************************)
FormValues ==
  { Null, Str(""), Str("2024-01-05"), Str("05/03/2024"), Str("5/3/2024"),
    Str("5/2024"), Str("20240105"), Str("hello") }

\* bodies of at most one date key
FormBodies ==
  UNION { [K -> FormValues] : K \in {S \in SUBSET DateKeys : Cardinality(S) <= 1} }

FormCreateBodies == {Override(FullCreate, b) : b \in FormBodies}

CreateFormProject == \E raw \in FormCreateBodies : CreateWith(raw)

UpdateFormProject ==
  \E id \in DOMAIN projects, raw \in FormBodies : UpdateWith(id, raw)

NextForms ==
  \/ CreateFormProject
  \/ UpdateFormProject

SpecForms == Init /\ [][NextForms]_vars

\* DD/MM/YYYY
IsDmyDate(x) == x \in {"10/01/2024", "05/03/2024", "5/3/2024"}

\* a date value that says "no date"
IsNoDate(v) == IsNullish(v) \/ v = Str("")

\* a date value in neither of the two accepted forms
IsOddDate(v) ==
  ~IsNoDate(v) /\ ~(IsString(v) /\ (IsIsoDate(v.s) \/ IsDmyDate(v.s)))

\* C21: every start or end date that create or update stores is null or a
\* string of the exact form YYYY-MM-DD, and a date input in neither
\* YYYY-MM-DD nor DD/MM/YYYY form (a slash value of fewer than three parts
\* included) is rejected and never reaches storage.
C21_OnlyIsoDatesStored ==
  /\ \A i \in DOMAIN projects : \A c \in DateColumns :
       projects[i][c] = Null \/ (IsString(projects[i][c]) /\ IsIsoDate(projects[i][c].s))
  /\ ( /\ req.op \in {"createProject", "updateProject"}
       /\ \E k \in DateKeys : IsOddDate(Get(req.body, k)) )
       => (res.kind # "ok" /\ projects = pre)

\* C22: every stored string field is trimmed of surrounding whitespace, and
\* an optional string field (the project manager here) that is empty after
\* trimming is stored as null, never as the empty string.
C22_BlankOptionalStoredNull ==
  \A i \in DOMAIN projects :
    /\ projects[i]["pm"] # Str("")
    /\ \A c \in {"nombre", "pais", "pm"} :
         IsString(projects[i][c]) => Trim(projects[i][c].s) = projects[i][c].s

(***************************************************************************)
(* Requests that carry the finalized flag in several representations.      *)
(***************************************************************************)
FlagValues == {Bool(TRUE), Bool(FALSE), Num(1), Num(0), Str("true"), Str("false")}

\* the empty body and the bodies of the flag alone
FlagBodies == {EmptyBody} \cup {[k \in {"terminado"} |-> v] : v \in FlagValues}

FlagCreateBodies == {Override(FullCreate, b) : b \in FlagBodies}

CreateFlaggedProject == \E raw \in FlagCreateBodies : CreateWith(raw)

UpdateFlaggedProject ==
  \E id \in DOMAIN projects, raw \in FlagBodies : UpdateWith(id, raw)

NextFlags ==
  \/ CreateFlaggedProject
  \/ UpdateFlaggedProject

SpecFlags == Init /\ [][NextFlags]_vars

\* the boolean a representation stands for
AsFlag(v) == Bool(v \in {Bool(TRUE), Num(1), Str("true")})

\* C23: the finalized flag that create or update stores is a strict
\* boolean: a boolean, a numeric 0/1 or a string "true"/"false" input is
\* stored as the corresponding boolean, and an absent flag on create is
\* stored as false.
C23_FlagStoredAsBoolean ==
  /\ \A i \in DOMAIN projects : IsBoolean(projects[i]["terminado"])
  /\ ( /\ req.op \in {"createProject", "updateProject"}
       /\ res.kind = "ok" /\ Kept
       /\ Get(req.body, "terminado") \in FlagValues )
       => projects[Target]["terminado"] = AsFlag(Get(req.body, "terminado"))
  /\ ( /\ req.op = "createProject"
       /\ res.kind = "ok" /\ Kept
       /\ AbsentFrom(req.body, "terminado") )
       => projects[Target]["terminado"] = Bool(FALSE)

(***************************************************************************)
(* Requests that carry text that is no finite number.                      *)
(***************************************************************************)
UnparsedValues == {Str("NaN"), Str("hello"), Str("50,5"), Str("5"), Num(5)}

\* bodies of at most one numeric key
UnparsedBodies ==
  UNION { [K -> UnparsedValues] : K \in {S \in SUBSET NumericColumns : Cardinality(S) <= 1} }

UnparsedCreateBodies == {Override(FullCreate, b) : b \in UnparsedBodies}

CreateUnparsedProject == \E raw \in UnparsedCreateBodies : CreateWith(raw)

UpdateUnparsedProject ==
  \E id \in DOMAIN projects, raw \in UnparsedBodies : UpdateWith(id, raw)

NextUnparsed ==
  \/ CreateUnparsedProject
  \/ UpdateUnparsedProject

SpecUnparsed == Init /\ [][NextUnparsed]_vars

\* C24: no create or update stores NaN or an infinite value in a numeric
\* project field: an input that parses to no finite number is replaced
\* before storage by the default 0 or by null.
C24_NoNaNStored ==
  /\ \A i \in DOMAIN projects : \A c \in NumericColumns :
       projects[i][c] = Null \/ IsFinite(projects[i][c])
  /\ ( /\ req.op = "createProject"
       /\ res.kind = "ok" /\ Kept )
       => \A c \in NumericColumns :
            (c \in DOMAIN req.body /\ ~IsFinite(JsNumber(req.body[c])))
              => projects[Target][c] \in {Null, Num(0)}

(***************************************************************************)
(* The normalizer applied to the dates of a body.                          *)
(***************************************************************************)
IsoInputs ==
  { Null, Str(""), Str("05/03/2024"), Str("5/3/2024"), Str("10/01/2024"),
    Str("2024-01-05"), Str("2024-03-05"), Str("20240105") }

IsoBodies == UNION { [K -> IsoInputs] : K \in SUBSET DateKeys }

\* const p = normalizeProjectPayload(req.body): the first statement of the
\* create and update handlers, its result kept in res.payload
NormalizeDates ==
  \E raw \in IsoBodies :
    /\ server \in {"main", "norm"}
    /\ req' = Request("normalize", 0, "", raw)
    /\ res' = [status |-> 0, kind |-> "normalized", sent |-> FALSE, ids |-> << >>,
               issues |-> {}, payload |-> normalizeProjectPayload(server, raw)]
    /\ UNCHANGED << server, projects, visits, nextId, nextVisit, now, pre, vpre,
                    inflight >>

NextIso == NormalizeDates

SpecIso == Init /\ [][NextIso]_vars

\* C25: the normalizer turns a DD/MM/YYYY date into YYYY-MM-DD with day and
\* month padded to two digits ("05/03/2024" and "5/3/2024" both give
\* "2024-03-05"), returns a YYYY-MM-DD date unchanged, and turns an absent
\* or empty date into null.
C25_DateNormalized ==
  res.kind = "normalized"
    => \A k \in DateKeys :
         LET v   == Get(req.body, k)
             out == res.payload[k]
         IN  /\ v \in {Str("05/03/2024"), Str("5/3/2024")} => out = Str("2024-03-05")
             /\ v = Str("10/01/2024") => out = Str("2024-01-10")
             /\ (IsString(v) /\ IsIsoDate(v.s)) => out = v
             /\ v \in {Undef, Null, Str("")} => out = Null

\* the normalizer has padded the day and the month of 5/3/2024
C25_ShortDatePadded ==
  /\ res.kind = "normalized"
  /\ Get(req.body, "start_date") = Str("5/3/2024")
  /\ res.payload["start_date"] = Str("2024-03-05")
  /\ Get(req.body, "end_date") = Str("2024-01-05")
  /\ res.payload["end_date"] = Str("2024-01-05")

\* a duration that is a finite number greater than 0
IsDuration(v) ==
  /\ ~IsNullish(v)
  /\ IsFinite(JsNumber(v))
  /\ JsNumber(v).n > 0

\* C26: a visit create request whose time/duration is missing, not a finite
\* number, zero or negative is rejected (answered with an error status) and
\* stores no visit; every stored visit has a finite duration greater than 0.
C26_VisitDurationPositive ==
  /\ \A i \in DOMAIN visits : IsDuration(visits[i]["hora"])
  /\ (req.op = "createVisit" /\ ~IsDuration(Get(req.body, "hora")))
       => (res.status >= 400 /\ visits = vpre)

\* C27: in the revision that registers GET /api/projects twice and
\* PUT /api/projects/:id twice, a request is served by the status-aware list
\* handler and by the update handler that returns the record: a listing
\* with status=archived holds only projects whose activo is false, and a
\* successful update returns the updated project.
C27_LaterRegistrationServes ==
  server = "zodenv"
    => /\ (req.op = "listProjects" /\ req.status = "archived" /\ res.kind = "ok")
            => \A i \in Range(res.ids) : projects[i]["activo"] = Bool(FALSE)
       /\ (req.op = "updateProject" /\ res.kind = "ok")
            => res.ids = << req.id >>

(***************************************************************************)
(* A deployment on an empty database: the projects table is the one that   *)
(* the server's own ensureTables creates, and a statement that names a     *)
(* column the table lacks fails.                                           *)
(***************************************************************************)
\* the revisions that create their tables at start
EnsuringServers == Servers \ {"raw"}

\* the columns of CREATE TABLE projects
EnsuredColumns(srv) ==
  CASE srv = "main" -> Columns
    [] srv = "norm" -> Columns \ {"activo"}
    [] OTHER        -> Columns \ {"observaciones", "activo", "updated_at"}

\* the columns that the INSERT of the zod revisions lists
ZodInsertColumns ==
  {"nombre", "pais", "monto_oportunidad", "pm", "planned_hours", "hourly_rate",
   "start_date", "end_date"}

\* the columns that the statement of a request names (SELECT * names none)
StatementColumns(srv, op, raw) ==
  CASE op = "listProjects" ->
         IF srv = "main"
           THEN {"nombre", "pais", "pm", "monto_oportunidad", "planned_hours",
                 "hourly_rate", "terminado", "activo", "start_date", "end_date",
                 "created_at", "updated_at"}
           ELSE {"fecha_creacion"}
    [] op = "createProject" ->
         IF srv = "main" THEN ZodInsertColumns \cup {"terminado", "observaciones", "activo"}
         ELSE IF srv = "norm" THEN ZodInsertColumns \cup {"terminado", "observaciones"}
         ELSE ZodInsertColumns
    [] op = "updateProject" ->
         IF srv = "main"
           THEN ZodInsertColumns \cup {"terminado", "observaciones", "activo", "updated_at"}
         ELSE IF srv \in {"norm", "zodflat"}
           THEN ZodInsertColumns \cup {"terminado", "observaciones", "updated_at"}
         ELSE IF srv = "zodenv"
           THEN (DOMAIN raw \cap (ZodInsertColumns \cup {"terminado"})) \cup {"updated_at"}
         ELSE DOMAIN raw \cap (ZodInsertColumns \cup {"terminado"})
    [] OTHER -> {}

\* the answer r of a handler, or the answer of its catch block when its
\* statement ran and named a column the table lacks
OnEnsuredTable(srv, op, raw, db, r) ==
  IF r.sent /\ ~(StatementColumns(srv, op, raw) \subseteq EnsuredColumns(srv))
    THEN Reply(db, 500, "storage", TRUE, << >>, {})
    ELSE r

FreshUpdateBodies == RacedUpdateBodies \cup {[nombre |-> Str("b"), monto_oportunidad |-> Num(0)]}

CreateOnFresh ==
  /\ server \in EnsuringServers
  /\ nextId <= MaxProjects
  /\ LET r == OnEnsuredTable(server, "createProject", FullCreate, projects,
                             postProject(server, projects, nextId, now + 1, FullCreate))
     IN  /\ ProjectStep(Request("createProject", nextId, "", FullCreate), r)
         /\ nextId' = IF r.kind = "ok" THEN nextId + 1 ELSE nextId

ListOnFresh ==
  \E status \in StatusQueries :
    /\ server \in EnsuringServers
    /\ ProjectStep(Request("listProjects", 0, status, EmptyBody),
                   OnEnsuredTable(server, "listProjects", EmptyBody, projects,
                                  listProjects(server, projects, status)))
    /\ UNCHANGED nextId

GetOnFresh ==
  \E id \in 1..nextId :
    /\ server \in EnsuringServers
    /\ ProjectStep(Request("getProject", id, "", EmptyBody),
                   OnEnsuredTable(server, "getProject", EmptyBody, projects,
                                  getProject(server, projects, id)))
    /\ UNCHANGED nextId

UpdateOnFresh ==
  \E id \in DOMAIN projects, raw \in FreshUpdateBodies :
    /\ server \in EnsuringServers
    /\ ProjectStep(Request("updateProject", id, "", raw),
                   OnEnsuredTable(server, "updateProject", raw, projects,
                                  putProject(server, projects, id, now + 1, raw)))
    /\ UNCHANGED nextId

NextFresh ==
  \/ CreateOnFresh
  \/ ListOnFresh
  \/ GetOnFresh
  \/ UpdateOnFresh

SpecFresh == Init /\ [][NextFresh]_vars

\* C28: on the table that ensureTables creates on an empty database, every
\* project statement of the server (list, getById, create, update) names
\* only columns the table has, so a listing that follows a create answers
\* with the projects and not with a storage error.
C28_StatementsFitOwnTable ==
  /\ (req.op \in {"listProjects", "getProject", "createProject", "updateProject"}
        /\ res.sent)
       => StatementColumns(server, req.op, req.body) \subseteq EnsuredColumns(server)
  /\ (req.op = "listProjects" /\ projects # EmptyTable)
       => /\ res.kind = "ok"
          /\ req.status = "" => Range(res.ids) = DOMAIN projects

(***************************************************************************)
(* Updates of a project whose fields are all set.                          *)
(***************************************************************************)
SetCreate ==
  Override(FullCreate,
           [pm |-> Str("p"), planned_hours |-> Num(40), hourly_rate |-> Num(5),
            start_date |-> Str("2024-01-05"), end_date |-> Str("2024-01-10"),
            observaciones |-> Str("note")])

\* the bodies of one key that carry null or the empty string
BlankBodies ==
  UNION { [K -> {Null, Str("")}] :
          K \in {{k} : k \in Updatable \cup {"finalizado", "fecha_inicio"}} }

\* the bodies of one key of the other requests, the blank bodies, and the
\* blank bodies sent together with a name and a country
ClearingBodies ==
  SingleBodies \cup BlankBodies
    \cup {Override([nombre |-> Str("b"), pais |-> Str("cl")], b) : b \in BlankBodies}

CreateSetProject == CreateWith(SetCreate)

UpdateClearing ==
  \E id \in DOMAIN projects, raw \in ClearingBodies : UpdateWith(id, raw)

NextMerge ==
  \/ CreateSetProject
  \/ UpdateClearing

SpecMerge == Init /\ [][NextMerge]_vars

PrimaryServers == {"main", "norm"}

\* C29: in the update of the primary server a stored field that is non-null
\* before the update is non-null after it, for every field and every body:
\* the COALESCE merge replaces values and never clears one back to null.
C29_UpdateNeverClears ==
  (server \in PrimaryServers /\ req.op = "updateProject" /\ Found /\ Kept)
    => \A c \in Columns : pre[Target][c] # Null => projects[Target][c] # Null

\* a successful update of the primary server whose body carries pm = null
\* for a project that has a project manager
C29_NullSentValueKept ==
  /\ server = "main"
  /\ req.op = "updateProject"
  /\ res.kind = "ok"
  /\ Get(req.body, "pm") = Null /\ "pm" \in DOMAIN req.body
  /\ pre[Target]["pm"] = Str("p")
  /\ projects[Target]["pm"] = Str("p")

(***************************************************************************)
(* The client API layer: each function calls one method of the http helper *)
(* `api`; calling a method the helper does not define throws before any    *)
(* request is sent.                                                        *)
(***************************************************************************)
\* the methods of the object `api`
ApiMethods == {"get", "post", "put", "del"}

\* the entries of projectsApi and visitsApi that remove a record; each is
\* archiveProject or deleteVisit, which call api.delete
ProjectRemovers == {"projectsApi.archive", "projectsApi.delete", "projectsApi.remove"}
VisitRemovers   == {"visitsApi.delete", "visitsApi.remove"}
RemoveMethod    == "delete"

\* api[method](...): the server's answer r, or a TypeError and no request
ApiCall(method, r, db) ==
  IF method \in ApiMethods THEN r ELSE Reply(db, 0, "thrown", FALSE, << >>, {})

ClientCreateProject == "post" \in ApiMethods /\ CreateListedProject

ClientCreateVisit == "post" \in ApiMethods /\ CreateListedVisit

ClientRemoveProject ==
  \E fn \in ProjectRemovers, id \in 1..nextId :
    /\ ProjectStep(Request(fn, id, "", EmptyBody),
                   ApiCall(RemoveMethod, deleteProject(server, projects, id), projects))
    /\ UNCHANGED nextId

ClientRemoveVisit ==
  \E fn \in VisitRemovers, id \in 1..nextVisit :
    /\ VisitStep(Request(fn, id, "", EmptyBody),
                 ApiCall(RemoveMethod, deleteVisit(server, visits, id), visits))
    /\ UNCHANGED nextVisit

NextClient ==
  \/ ClientCreateProject
  \/ ClientCreateVisit
  \/ ClientRemoveProject
  \/ ClientRemoveVisit

SpecClient == Init /\ [][NextClient]_vars

\* C30: every method the client API layer calls on the http helper is one
\* the helper defines, so projectsApi.archive/delete/remove and
\* visitsApi.delete/remove each send one HTTP DELETE for the given id and
\* return the server's answer.
C30_RemoversSendDelete ==
  /\ req.op \in ProjectRemovers
       => /\ res.kind # "thrown"
          /\ res.status = deleteProject(server, pre, req.id).status
          /\ projects = deleteProject(server, pre, req.id).db
  /\ req.op \in VisitRemovers
       => /\ res.kind # "thrown"
          /\ res.status = deleteVisit(server, vpre, req.id).status
          /\ visits = deleteVisit(server, vpre, req.id).db

=============================================================================
